---- MODULE Spec2Model ----
(***************************************************************************)
(* WordBook2: the spaced-repetition study session.                         *)
(*                                                                         *)
(*   src/app.py             the Flask handlers study_start, study_card,    *)
(*                          study_answer, study_evaluate, study_result     *)
(*   src/services.py        StudyService.evaluate (the SM-2 variant)       *)
(*   src/infrastructure.py  DatabaseStorage (words and study_records)      *)
(*   src/models.py          Word, StudyRecord                              *)
(*                                                                         *)
(* One action is one HTTP request (one handler run).  A redirect is the    *)
(* handler's answer; the request it leads to is another step.              *)
(*                                                                         *)
(* ease_factor is held as a whole number of hundredths (2.5 is 250), dates *)
(* as day numbers.                                                         *)
(***************************************************************************)
EXTENDS Integers, Sequences, FiniteSets, TLC

VARIABLES
    words,          \* ids of the rows of table words
    records,        \* table study_records: word_id -> StudyRecord
    today,          \* date.today()
    study_queue,    \* session["study_queue"]   (absent reads as [])
    study_done,     \* session["study_done"]    (absent reads as [])
    study_ratings,  \* session["study_ratings"] (absent reads as {})
    study_total,    \* session["study_total"]: <<n>>, or <<>> when absent
    route,          \* where the last study request sent the browser: a
                    \* redirect target, a rendered page, or an error
    reviews,        \* number of StudyRecord updates committed so far
    session_due,    \* the due cards the running session was started with
    head_rated,     \* since study_start, the session changed only by
                    \* Hard/Good/Easy evaluations of the head of the queue
    inflight        \* per request thread: the StudyService.evaluate call it
                    \* is in, between its read and its commit

vars == <<words, records, today, study_queue, study_done, study_ratings,
          study_total, route, reviews, session_due, head_rated, inflight>>

history == <<session_due, head_rated>>

session == <<study_queue, study_done, study_ratings, study_total>>

database == <<words, records>>


-----------------------------------------------------------------------------
(* Bounds of the model.                                                    *)

MaxCards == 2

MaxDay == 1

MaxQueue == 2

MaxDone == 2

MaxReviews == 2

MaxReps == 3

MaxInterval == 30

Ids == 1 .. MaxCards

-----------------------------------------------------------------------------
(* Program constants.                                                      *)

Again == 0

Hard == 1

Good == 2

Easy == 3

DefaultEase == 250

MinEase == 130

MaxEase == 400

HardEasePenalty == 15

EasyEaseBonus == 10

Ratings == {Again, Hard, Good, Easy}

\* Two request threads (the server runs one thread per request).
Workers == {"a", "b"}

\* No thread is inside StudyService.evaluate.
NoneInflight == [p \in Workers |-> <<>>]

-----------------------------------------------------------------------------
(* Helpers.                                                                *)

EmptyMap == [k \in {} |-> 0]

Max(a, b) == IF a >= b THEN a ELSE b

Min(a, b) == IF a <= b THEN a ELSE b

Range(s) == {s[i] : i \in 1 .. Len(s)}

\* Python's round() on the non-negative rational num/den: to the nearest
\* whole number, an exact half going to the even neighbour.
PyRound(num, den) ==
    LET q == num \div den
        r == num % den
    IN  IF 2 * r < den THEN q
        ELSE IF 2 * r > den THEN q + 1
        ELSE IF q % 2 = 0 THEN q ELSE q + 1

\* str(word_id), the key of session["study_ratings"].
str(word_id) == ToString(word_id)

\* All orders of a finite set, as sequences without repetition.
Orders(S) ==
    {s \in [1 .. Cardinality(S) -> S] : \A i, j \in 1 .. Cardinality(S) : s[i] = s[j] => i = j}

-----------------------------------------------------------------------------
(* StudyRecord and the SM-2 update of StudyService.evaluate.               *)

\* The row add_word creates beside a new word.
FreshRecord(day) ==
    [ease_factor |-> DefaultEase, interval_days |-> 0, repetitions |-> 0,
     due_date |-> day, last_reviewed_at |-> <<>>]

\* NextReps with the floor of zero left off the Hard row.
NextRepsNoFloor(reps, rating) ==
    CASE rating = Again -> 0
      [] rating = Hard  -> reps - 1
      [] OTHER          -> reps + 1

NextReps(reps, rating) ==
    CASE rating = Again -> 0
      [] rating = Hard  -> Max(0, reps - 1)
      [] OTHER          -> reps + 1

\* NextInterval with the floor of one day left off the Hard row.
NextIntervalNoFloor(intv, ef, reps, rating) ==
    CASE rating = Again -> 0
      [] rating = Hard  -> PyRound(intv * 8, 10)
      [] rating = Good  -> IF reps = 0 THEN 1
                           ELSE IF reps = 1 THEN 6
                           ELSE PyRound(intv * ef, 100)
      [] OTHER          -> IF reps = 0 THEN 4
                           ELSE IF reps = 1 THEN 10
                           ELSE PyRound(intv * ef * 13, 1000)

NextInterval(intv, ef, reps, rating) ==
    CASE rating = Again -> 0
      [] rating = Hard  -> Max(1, PyRound(intv * 8, 10))
      [] rating = Good  -> IF reps = 0 THEN 1
                           ELSE IF reps = 1 THEN 6
                           ELSE PyRound(intv * ef, 100)
      [] OTHER          -> IF reps = 0 THEN 4
                           ELSE IF reps = 1 THEN 10
                           ELSE PyRound(intv * ef * 13, 1000)

\* NextEase with the two limits left off.
NextEaseUnclamped(ef, rating) ==
    CASE rating = Hard -> ef - HardEasePenalty
      [] rating = Easy -> ef + EasyEaseBonus
      [] OTHER         -> ef

NextEase(ef, rating) ==
    CASE rating = Hard -> Max(MinEase, ef - HardEasePenalty)
      [] rating = Easy -> Min(MaxEase, ef + EasyEaseBonus)
      [] OTHER         -> ef

\* Schedule counting the due date from the UTC date instead of date.today().
ScheduleDueFromUtc(record, rating, day, now) ==
    LET intv == NextInterval(record.interval_days, record.ease_factor,
                             record.repetitions, rating)
    IN  [ease_factor      |-> NextEase(record.ease_factor, rating),
         interval_days    |-> intv,
         repetitions      |-> NextReps(record.repetitions, rating),
         due_date         |-> now + intv,
         last_reviewed_at |-> <<now>>]

\* The record StudyService.evaluate writes back: day is date.today(), now the
\* date of datetime.utcnow().
Schedule(record, rating, day, now) ==
    LET intv == NextInterval(record.interval_days, record.ease_factor,
                             record.repetitions, rating)
    IN  [ease_factor      |-> NextEase(record.ease_factor, rating),
         interval_days    |-> intv,
         repetitions      |-> NextReps(record.repetitions, rating),
         due_date         |-> day + intv,
         last_reviewed_at |-> <<now>>]

\* The dates datetime.utcnow() can fall on while date.today() is day: the
\* server's local date and the UTC date differ by at most one day.
UtcDates(day) == {day - 1, day, day + 1}

\* The model's cap on the counters the update lets grow without limit.
WithinBounds(record) ==
    /\ record.repetitions <= MaxReps
    /\ record.interval_days <= MaxInterval

-----------------------------------------------------------------------------
(* DatabaseStorage.                                                        *)

get_word_by_id(word_id) == IF word_id \in words THEN <<word_id>> ELSE <<>>

get_study_record(word_id) ==
    IF word_id \in DOMAIN records THEN <<records[word_id]>> ELSE <<>>

\* update_study_record: the committed table.
update_study_record(word_id, record) ==
    [w \in DOMAIN records |-> IF w = word_id THEN record ELSE records[w]]

\* DueIds leaving out the records due on the day itself.
DueIdsBeforeDay(day) == {w \in DOMAIN records : records[w].due_date < day /\ w \in words}

\* get_due_words: the words of the records due on or before day, a record
\* whose word is gone left out.  The query has no ORDER BY: any order.
DueIds(day) == {w \in DOMAIN records : records[w].due_date <= day /\ w \in words}

get_due_words(day) == Orders(DueIds(day))

\* get_next_due_date counting the records due on the day itself.
get_next_due_date_from_day(day) ==
    LET later == {records[w].due_date : w \in {x \in DOMAIN records : records[x].due_date >= day}}
    IN  IF later = {} THEN <<>>
        ELSE <<CHOOSE d \in later : \A e \in later : d <= e>>

\* get_next_due_date: the earliest due_date after day, <<>> when there is none.
get_next_due_date(day) ==
    LET later == {records[w].due_date : w \in {x \in DOMAIN records : records[x].due_date > day}}
    IN  IF later = {} THEN <<>>
        ELSE <<CHOOSE d \in later : \A e \in later : d <= e>>

\* delete_words_by_ids: the rows of the given words and their study records.
delete_words_by_ids(ids) ==
    /\ words' = words \ ids
    /\ records' = [w \in DOMAIN records \ ids |-> records[w]]

-----------------------------------------------------------------------------
(* StudyService.evaluate as a storage transaction.                         *)

\* How the call ends.  fault is the storage call that raises
\* StorageException: "none", "fetch" (get_study_record) or "save"
\* (update_study_record, which rolls back).
EvaluateOutcome(word_id, fault) ==
    IF fault = "fetch" THEN "fetch_failed"
    ELSE IF get_study_record(word_id) = <<>> THEN "missing"
    ELSE IF fault = "save" THEN "save_failed"
    ELSE "saved"

\* The table after the call.
EvaluateRecords(word_id, rating, fault, now) ==
    IF EvaluateOutcome(word_id, fault) = "saved"
    THEN update_study_record(word_id, Schedule(records[word_id], rating, today, now))
    ELSE records

-----------------------------------------------------------------------------
(* The requests.                                                           *)

Init ==
    /\ words = {}
    /\ records = EmptyMap
    /\ today = 0
    /\ study_queue = <<>>
    /\ study_done = <<>>
    /\ study_ratings = EmptyMap
    /\ study_total = <<>>
    /\ route = "none"
    /\ reviews = 0
    /\ session_due = <<>>
    /\ head_rated = FALSE
    /\ inflight = NoneInflight

\* add_word committing the word before its StudyRecord exists.
add_word_without_record(id, failed) ==
    /\ id \notin words
    /\ id \notin DOMAIN records
    /\ IF failed
       THEN UNCHANGED database
       ELSE /\ words' = words \cup {id}
            /\ records' = records
    /\ UNCHANGED <<today, inflight, session, route, reviews, history>>

\* POST /add -> WordService.add_to_dictionary -> DatabaseStorage.add_word:
\* the word and its StudyRecord in one commit, or (failed) neither.
add_word(id, failed) ==
    /\ id \notin words
    /\ id \notin DOMAIN records
    /\ IF failed
       THEN UNCHANGED database
       ELSE /\ words' = words \cup {id}
            /\ records' = [w \in DOMAIN records \cup {id} |->
                              IF w = id THEN FreshRecord(today) ELSE records[w]]
    /\ UNCHANGED <<today, inflight, session, route, reviews, history>>

\* POST /clear -> DatabaseStorage.delete_all_words.
clear(failed) ==
    /\ IF failed
       THEN UNCHANGED database
       ELSE /\ words' = {}
            /\ records' = EmptyMap
    /\ UNCHANGED <<today, inflight, session, route, reviews, history>>

\* POST /delete/selected -> WordService.delete_selected.
delete_selected(ids, failed) ==
    /\ ids # {}
    /\ IF failed THEN UNCHANGED database ELSE delete_words_by_ids(ids)
    /\ UNCHANGED <<today, inflight, session, route, reviews, history>>

\* Midnight.
next_day ==
    /\ today < MaxDay
    /\ today' = today + 1
    /\ UNCHANGED <<database, session, route, reviews, history, inflight>>

\* build_session_queue losing the first card.
build_session_queue_tail(cards) == [i \in 1 .. Len(cards) - 1 |-> cards[i + 1]]

\* build_session_queue: the ids of the cards, in their order.
build_session_queue(cards) == [i \in 1 .. Len(cards) |-> cards[i]]

\* POST /study/start.
study_start(cards, failed) ==
    /\ cards \in get_due_words(today)
    /\ IF failed
       THEN /\ route' = "error"
            /\ UNCHANGED <<session, history>>
       ELSE IF cards = <<>>
       THEN /\ route' = "study_top"
            /\ UNCHANGED <<session, history>>
       ELSE /\ study_queue' = build_session_queue(cards)
            /\ study_done' = <<>>
            /\ study_ratings' = EmptyMap
            /\ study_total' = <<Len(build_session_queue(cards))>>
            /\ route' = "study_card"
            /\ session_due' = cards
            /\ head_rated' = TRUE
    /\ UNCHANGED <<database, today, inflight, reviews>>

\* The progress the card page shows: "current_num / total_count".
done_count == Len(study_done)

total_count == IF study_total = <<>> THEN Len(study_queue) ELSE study_total[1]

current_num == done_count + 1

\* GET /study/card.
study_card(failed) ==
    /\ IF study_queue = <<>>
       THEN /\ route' = "study_result"
            /\ UNCHANGED <<session, history>>
       ELSE IF failed
       THEN /\ route' = "error"
            /\ UNCHANGED <<session, history>>
       ELSE IF get_word_by_id(Head(study_queue)) = <<>>
       THEN /\ study_queue' = Tail(study_queue)
            /\ route' = "study_card"
            /\ head_rated' = FALSE
            /\ UNCHANGED <<study_done, study_ratings, study_total, session_due>>
       ELSE /\ route' = "session_page"
            /\ UNCHANGED <<session, history>>
    /\ UNCHANGED <<database, today, inflight, reviews>>

\* POST /study/answer: the page of the head with its answer.  The head is
\* fetched as in study_card but a head whose word is deleted is not dropped:
\* the page is rendered with word=None.
study_answer(failed) ==
    /\ IF study_queue = <<>>
       THEN route' = "study_result"
       ELSE IF failed
       THEN route' = "error"
       ELSE IF get_word_by_id(Head(study_queue)) = <<>>
       THEN route' = "session_page_word_none"
       ELSE route' = "session_page"
    /\ UNCHANGED <<database, today, inflight, session, reviews, history>>

\* PopHead leaving the head where it is.
PopHeadKept(queue, word_id) == queue

\* The head of the queue taken off when it is the word evaluated.
PopHead(queue, word_id) ==
    IF queue # <<>> /\ Head(queue) = word_id THEN Tail(queue) ELSE queue

\* Requeue putting the word back at the head.
RequeueAtHead(queue, word_id) == <<word_id>> \o queue

\* Requeue appending the word twice.
RequeueTwice(queue, word_id) == Append(Append(queue, word_id), word_id)

Requeue(queue, word_id) == Append(queue, word_id)

\* MarkDone putting the word first.
MarkDoneFirst(done, word_id) == <<word_id>> \o done

MarkDone(done, word_id) == Append(done, word_id)

\* RecordRating forgetting the entry.
RecordRatingDropped(ratings, word_id, rating) == ratings

RecordRating(ratings, word_id, rating) ==
    [k \in DOMAIN ratings \cup {str(word_id)} |->
        IF k = str(word_id) THEN rating ELSE ratings[k]]

\* EvaluateRoute going on to the next card whatever the queue holds.
EvaluateRouteOnward(queue) == "study_card"

EvaluateRoute(queue) == IF queue = <<>> THEN "study_result" ELSE "study_card"

IsHead(word_id) == study_queue # <<>> /\ Head(study_queue) = word_id

\* POST /study/evaluate with a rating of 0..3; now is the UTC date.
study_evaluate(word_id, rating, fault, now) ==
    LET queue == PopHead(study_queue, word_id)
        outcome == EvaluateOutcome(word_id, fault)
    IN  IF rating = Again
        THEN /\ fault = "none"
             /\ Len(Requeue(queue, word_id)) <= MaxQueue
             /\ study_queue' = Requeue(queue, word_id)
             /\ route' = EvaluateRoute(Requeue(queue, word_id))
             /\ head_rated' = FALSE
             /\ UNCHANGED <<database, today, inflight, study_done, study_ratings, study_total,
                            reviews, session_due>>
        ELSE /\ fault = "save" => outcome = "save_failed"
             /\ records' = EvaluateRecords(word_id, rating, fault, now)
             /\ outcome = "saved" =>
                    /\ reviews < MaxReviews
                    /\ WithinBounds(Schedule(records[word_id], rating, today, now))
             /\ reviews' = IF outcome = "saved" THEN reviews + 1 ELSE reviews
             /\ IF outcome \in {"fetch_failed", "save_failed"}
                THEN /\ route' = "error"
                     /\ UNCHANGED <<session, history>>
                ELSE /\ Len(MarkDone(study_done, word_id)) <= MaxDone
                     /\ study_queue' = queue
                     /\ study_done' = MarkDone(study_done, word_id)
                     /\ study_ratings' = RecordRating(study_ratings, word_id, rating)
                     /\ route' = EvaluateRoute(queue)
                     /\ head_rated' = (head_rated /\ IsHead(word_id))
                     /\ UNCHANGED <<study_total, session_due>>
             /\ UNCHANGED <<words, today, inflight>>

\* POST /study/evaluate with a rating outside 0..3: 400 Bad Request.
study_evaluate_bad_rating ==
    /\ route' = "bad_request"
    /\ UNCHANGED <<database, today, inflight, session, reviews, history>>

\* study_result rescheduling the cards left in the queue as if rated Again.
study_result_resetting_pending(failed) ==
    /\ IF failed
       THEN /\ route' = "error"
            /\ UNCHANGED <<session, history, records>>
       ELSE /\ study_queue' = <<>>
            /\ study_done' = <<>>
            /\ study_ratings' = EmptyMap
            /\ study_total' = <<>>
            /\ route' = "result_page"
            /\ session_due' = <<>>
            /\ head_rated' = FALSE
            /\ records' = [w \in DOMAIN records |->
                              IF w \in Range(study_queue)
                              THEN Schedule(records[w], Again, today, today)
                              ELSE records[w]]
    /\ UNCHANGED <<words, today, inflight, reviews>>

\* GET /study/result.
study_result(failed) ==
    /\ IF failed
       THEN /\ route' = "error"
            /\ UNCHANGED <<session, history>>
       ELSE /\ study_queue' = <<>>
            /\ study_done' = <<>>
            /\ study_ratings' = EmptyMap
            /\ study_total' = <<>>
            /\ route' = "result_page"
            /\ session_due' = <<>>
            /\ head_rated' = FALSE
    /\ UNCHANGED <<database, today, inflight, reviews>>

\* The requests of a study session and of the dictionary pages, on one day
\* and with the UTC date equal to the local date (SchedSpec moves both).
Next ==
    \/ \E id \in Ids, failed \in BOOLEAN : add_word(id, failed)
    \/ \E failed \in BOOLEAN : clear(failed)
    \/ \E ids \in SUBSET Ids, failed \in BOOLEAN : delete_selected(ids, failed)
    \/ \E cards \in get_due_words(today), failed \in BOOLEAN : study_start(cards, failed)
    \/ \E failed \in BOOLEAN : study_card(failed)
    \/ \E failed \in BOOLEAN : study_answer(failed)
    \/ \E word_id \in Ids, rating \in Ratings, fault \in {"none", "fetch", "save"} :
          study_evaluate(word_id, rating, fault, today)
    \/ study_evaluate_bad_rating
    \/ \E failed \in BOOLEAN : study_result(failed)

Spec == Init /\ [][Next]_vars

-----------------------------------------------------------------------------
(* The schedule of one card: StudyService.evaluate called with each of its *)
(* four ratings, over the days.                                            *)

SchedInit ==
    /\ words = {1}
    /\ records = [w \in {1} |-> FreshRecord(0)]
    /\ today = 0
    /\ study_queue = <<>>
    /\ study_done = <<>>
    /\ study_ratings = EmptyMap
    /\ study_total = <<>>
    /\ route = "none"
    /\ reviews = 0
    /\ session_due = <<>>
    /\ head_rated = FALSE
    /\ inflight = NoneInflight

\* StudyService.evaluate(word_id, rating).
evaluate(word_id, rating, fault, now) ==
    /\ fault = "save" => EvaluateOutcome(word_id, fault) = "save_failed"
    /\ EvaluateOutcome(word_id, fault) = "saved" =>
           WithinBounds(Schedule(records[word_id], rating, today, now))
    /\ records' = EvaluateRecords(word_id, rating, fault, now)
    /\ route' = EvaluateOutcome(word_id, fault)
    /\ UNCHANGED <<words, today, inflight, session, reviews, history>>

SchedNext ==
    \/ \E rating \in Ratings, fault \in {"none", "fetch", "save"}, now \in UtcDates(today) :
          evaluate(1, rating, fault, now)
    \/ next_day

SchedSpec == SchedInit /\ [][SchedNext]_vars

-----------------------------------------------------------------------------
(* Two threads in StudyService.evaluate for the same card.  Each thread has *)
(* its own SQLAlchemy session: it loads the row (get_study_record), sets    *)
(* the attributes on its own copy, and update_study_record commits an       *)
(* UPDATE of the attributes whose value it changed.  Nothing locks the row  *)
(* or checks its version between the read and the commit.                   *)

ConcInit ==
    /\ words = {1}
    /\ records = [w \in {1} |-> FreshRecord(0)]
    /\ today = 0
    /\ study_queue = <<>>
    /\ study_done = <<>>
    /\ study_ratings = EmptyMap
    /\ study_total = <<>>
    /\ route = "none"
    /\ reviews = 0
    /\ session_due = <<>>
    /\ head_rated = FALSE
    /\ inflight = NoneInflight

\* The row after the commit of a copy loaded as read and changed to computed:
\* the UPDATE sets the attributes that differ from their loaded value.
Flush(current, read, computed) ==
    [f \in DOMAIN current |-> IF computed[f] # read[f] THEN computed[f] ELSE current[f]]

\* StudyService.evaluate up to its read: record = get_study_record(word_id).
evaluate_read(p, word_id, rating) ==
    /\ inflight[p] = <<>>
    /\ get_study_record(word_id) # <<>>
    /\ inflight' = [inflight EXCEPT ![p] =
                       <<[pc |-> "read", word_id |-> word_id, rating |-> rating,
                          record |-> records[word_id]]>>]
    /\ UNCHANGED <<database, today, session, route, reviews, history>>

\* The rest of StudyService.evaluate: compute and update_study_record.
evaluate_write(p, now) ==
    /\ inflight[p] # <<>>
    /\ inflight[p][1].pc = "read"
    /\ LET call == inflight[p][1]
           computed == Schedule(call.record, call.rating, today, now)
       IN  /\ call.word_id \in DOMAIN records
           /\ records' = update_study_record(call.word_id,
                             Flush(records[call.word_id], call.record, computed))
           /\ inflight' = [inflight EXCEPT ![p] = <<[call EXCEPT !.pc = "done"]>>]
    /\ reviews' = reviews + 1
    /\ route' = "saved"
    /\ UNCHANGED <<words, today, session, history>>

ConcNext ==
    \/ \E p \in Workers, rating \in Ratings : evaluate_read(p, 1, rating)
    \/ \E p \in Workers, now \in UtcDates(today) : evaluate_write(p, now)

ConcSpec == ConcInit /\ [][ConcNext]_vars

-----------------------------------------------------------------------------
(* One study session driven on the head of the queue: cards are added and   *)
(* deleted, the session is started once, and the learner asks for the card  *)
(* and rates the word shown.  The learner does not answer Again for ever: a *)
(* head that keeps being shown is in the end rated Hard, Good or Easy.      *)

\* The learner rates the word at the head Hard, Good or Easy, and it is saved.
HeadRated ==
    \E w \in Ids, r \in {Hard, Good, Easy} :
        IsHead(w) /\ study_evaluate(w, r, "none", today)

LiveNext ==
    \/ \E id \in Ids : add_word(id, FALSE)
    \/ clear(FALSE)
    \/ \E cards \in get_due_words(today) : study_total = <<>> /\ study_start(cards, FALSE)
    \/ \E failed \in BOOLEAN : study_card(failed)
    \/ \E w \in Ids, r \in Ratings, f \in {"none", "fetch", "save"} :
          IsHead(w) /\ study_evaluate(w, r, f, today)

LiveSpec == Init /\ [][LiveNext]_vars /\ SF_vars(HeadRated)

-----------------------------------------------------------------------------
(* The claims.                                                             *)

NonAgain == {Hard, Good, Easy}

Faults == {"none", "fetch", "save"}

\* C1: study_evaluate with rating Again for the word at the head of the queue
\* only moves that word from the head to the tail: the queue keeps its length
\* and the order of its other words, done, ratings and total stay as they
\* are, and no StudyRecord is touched (the update is not run: no commit).
C1_AgainMovesHeadToTail ==
    [][\A w \in Ids :
          (IsHead(w) /\ study_evaluate(w, Again, "none", today)) =>
              /\ Len(study_queue') = Len(study_queue)
              /\ study_queue'[Len(study_queue')] = w
              /\ \A i \in 1 .. Len(study_queue) - 1 : study_queue'[i] = study_queue[i + 1]
              /\ study_done' = study_done
              /\ study_ratings' = study_ratings
              /\ study_total' = study_total
              /\ records' = records
              /\ reviews' = reviews]_vars

\* A session started with two cards whose first card was sent to the tail.
C1_Witness ==
    /\ Len(session_due) = 2
    /\ study_queue = <<session_due[2], session_due[1]>>
    /\ study_done = <<>>
    /\ study_ratings = EmptyMap
    /\ study_total = <<2>>
    /\ ~head_rated
    /\ route = "study_card"
    /\ Range(session_due) \subseteq words

\* C2: with the queue [A, B], A rated Again gives [B, A]; then B rated Good
\* gives the queue [A] and done [B]; then A rated Good gives the queue [] and
\* done [B, A].  In general a word rated Again goes behind every other word
\* of the queue, and done grows only at its end, by the word just given a
\* rating other than Again.
C2_AgainThenGood ==
    [][/\ \A a, b \in Ids :
            /\ (/\ a # b
                /\ study_queue = <<a, b>> /\ study_done = <<>>
                /\ study_evaluate(a, Again, "none", today))
               => (study_queue' = <<b, a>> /\ study_done' = <<>>)
            /\ (/\ a # b
                /\ study_queue = <<b, a>> /\ study_done = <<>>
                /\ study_evaluate(b, Good, "none", today))
               => (study_queue' = <<a>> /\ study_done' = <<b>>)
            /\ (/\ a # b
                /\ study_queue = <<a>> /\ study_done = <<b>>
                /\ study_evaluate(a, Good, "none", today))
               => (study_queue' = <<>> /\ study_done' = <<b, a>>)
       /\ \A w \in Ids :
            (IsHead(w) /\ study_evaluate(w, Again, "none", today))
               => study_queue' = Tail(study_queue) \o <<w>>
       /\ \A w \in Ids, r \in NonAgain :
            (study_evaluate(w, r, "none", today))
               => /\ Len(study_done') = Len(study_done) + 1
                  /\ study_done'[Len(study_done')] = w
                  /\ \A i \in 1 .. Len(study_done) : study_done'[i] = study_done[i]
       /\ (Len(study_done') > Len(study_done))
               => \E w \in Ids, r \in NonAgain : study_evaluate(w, r, "none", today)]_vars

\* The end of the run: started with [A, B], A was sent back once, both done.
C2_Witness ==
    /\ Len(session_due) = 2
    /\ study_queue = <<>>
    /\ study_done = <<session_due[2], session_due[1]>>
    /\ study_ratings = (str(session_due[1]) :> Good) @@ (str(session_due[2]) :> Good)
    /\ ~head_rated
    /\ route = "study_result"
    /\ reviews = 2

\* C3 (state part): while the session has changed only by Hard/Good/Easy
\* ratings of the head, done followed by the queue is the list of due cards
\* the session started with, total is its length, and ratings has exactly
\* the words of done, each with a rating of 1..3.  So after n such ratings
\* of n due cards the queue is empty and done is the due list in its order.
C3_HeadRatedInv ==
    head_rated =>
        /\ study_done \o study_queue = session_due
        /\ study_total = <<Len(session_due)>>
        /\ DOMAIN study_ratings = {str(w) : w \in Range(study_done)}
        /\ \A k \in DOMAIN study_ratings : study_ratings[k] \in NonAgain

\* C3 (step part): such a rating enters the rating given under the word's
\* key and leaves the ratings of the other words as they were.
C3_HeadRatedStep ==
    \A w \in Ids, r \in NonAgain :
        (head_rated /\ IsHead(w) /\ study_evaluate(w, r, "none", today)) =>
            /\ study_ratings'[str(w)] = r
            /\ \A k \in DOMAIN study_ratings : study_ratings'[k] = study_ratings[k]
            /\ study_total' = study_total

\* C3: a session of n distinct due cards in which every rating is Hard, Good
\* or Easy on the head ends after n ratings with an empty queue, done equal
\* to the due cards in the order of the due query, ratings holding every
\* card's rating, and total n.
C3_AllRatedInOrder == []C3_HeadRatedInv /\ [][C3_HeadRatedStep]_vars

\* Two due cards, both rated on the head, one Good and one Easy.
C3_Witness ==
    /\ head_rated
    /\ Len(session_due) = 2
    /\ study_queue = <<>>
    /\ study_done = session_due
    /\ study_ratings = (str(session_due[1]) :> Good) @@ (str(session_due[2]) :> Easy)
    /\ study_total = <<2>>
    /\ route = "study_result"

\* C4: a Hard, Good or Easy rating of the head whose StudyRecord is absent
\* leaves done, ratings and the records as they were.
C4_MissingRecordIsNoOp ==
    [][\A w \in Ids, r \in NonAgain :
          (IsHead(w) /\ get_study_record(w) = <<>> /\ study_evaluate(w, r, "none", today)) =>
              /\ study_done' = study_done
              /\ study_ratings' = study_ratings
              /\ records' = records]_vars

\* C5: study_evaluate for a word that is not the head of the queue (the
\* queue may be empty) leaves the queue, done, ratings and the records as
\* they were, whatever the rating.
C5_MismatchIgnored ==
    [][\A w \in Ids, r \in Ratings, f \in Faults :
          (~IsHead(w) /\ study_evaluate(w, r, f, today)) =>
              /\ study_queue' = study_queue
              /\ study_done' = study_done
              /\ study_ratings' = study_ratings
              /\ records' = records]_vars

\* C6: a Hard, Good or Easy study_evaluate is all or nothing.  When the fetch
\* or the save raises, the request ends in the error and the session and the
\* records are as before; when the record is saved the word has left the
\* head of the queue and is done; and the word leaves the head or is done
\* only when its record is saved.
C6_EvaluateAtomic ==
    [][\A w \in Ids, r \in NonAgain, f \in Faults :
          study_evaluate(w, r, f, today) =>
              LET outcome == EvaluateOutcome(w, f)
                  popped == IsHead(w) /\ study_queue' = Tail(study_queue)
                  completed == study_done' = Append(study_done, w)
              IN  /\ outcome \in {"fetch_failed", "save_failed"} =>
                         /\ route' = "error"
                         /\ UNCHANGED <<session, records>>
                  /\ outcome = "saved" => (popped /\ completed)
                  /\ (popped \/ completed) => outcome = "saved"]_vars

\* The first word of a queue whose row still exists: <<id>>, or <<>>.
FirstExisting(queue) ==
    LET here == {i \in 1 .. Len(queue) : queue[i] \in words}
    IN  IF here = {} THEN <<>>
        ELSE <<queue[CHOOSE i \in here : \A j \in here : i <= j]>>

\* PeekStep(request): a step of a request that fetches the head of the queue
\* to show it.  With a head whose word is deleted it takes that id off the
\* queue, leaves done, ratings, total and the records alone and asks for
\* study_card again; it always keeps the first existing word of the queue;
\* the card it shows is that word; it goes to the result page only from an
\* empty queue; and it never ends in an error or in a page without a word.
PeekStep(request) ==
    request =>
        /\ (study_queue # <<>> /\ Head(study_queue) \notin words) =>
               /\ study_queue' = Tail(study_queue)
               /\ study_done' = study_done
               /\ study_ratings' = study_ratings
               /\ study_total' = study_total
               /\ records' = records
               /\ route' = "study_card"
        /\ FirstExisting(study_queue') = FirstExisting(study_queue)
        /\ route' = "session_page" =>
               /\ study_queue' = study_queue
               /\ <<Head(study_queue')>> = FirstExisting(study_queue)
        /\ route' = "study_result" => study_queue = <<>>
        /\ route' \in {"study_card", "session_page", "study_result"}

\* C7: fetching the head of a queue whose head is a deleted word drops that
\* id without a rating and without adding it to done, then retries; repeated,
\* it shows the first word of the queue that still exists or completes the
\* session when the queue is empty, and never surfaces an error.  The head
\* is fetched by study_card and by study_answer.
C7_DeletedHeadDropped ==
    [][PeekStep(study_card(FALSE)) /\ PeekStep(study_answer(FALSE))]_vars

\* C7 for study_card alone.
C7_StudyCardDropsDeletedHead == [][PeekStep(study_card(FALSE))]_vars

\* C8: the session is sent to the result page exactly when the queue is
\* empty.  study_evaluate that did not fail goes to study_result when the
\* queue it leaves is empty and to study_card otherwise; study_card goes to
\* study_result when it finds the queue empty and otherwise shows the head
\* or, after a drop, asks for study_card again; study_start never goes to
\* study_result and leaves a queue that is not empty when it starts a
\* session.  No step ends at study_result with a word left in the queue or
\* at the card page with the queue empty.  (Each "post \/ ~request" reads:
\* a step of that request ends in post.)
C8_CompleteIffQueueEmpty ==
    [][/\ route' = "study_result" => study_queue' = <<>>
       /\ route' = "session_page" => study_queue' # <<>>
       /\ \A w \in Ids, r \in Ratings, f \in Faults :
            \/ route' = "error"
            \/ /\ route' \in {"study_result", "study_card"}
               /\ route' = "study_result" <=> study_queue' = <<>>
            \/ ~study_evaluate(w, r, f, today)
       /\ \/ /\ route' \in {"study_result", "study_card", "session_page"}
             /\ route' = "study_result" <=> study_queue = <<>>
             /\ route' = "study_card" => Len(study_queue') < Len(study_queue)
          \/ ~study_card(FALSE)
       /\ \A cards \in get_due_words(today) :
            \/ /\ route' \in {"study_top", "study_card"}
               /\ route' = "study_card" => (study_queue' # <<>> /\ cards # <<>>)
            \/ ~study_start(cards, FALSE)]_vars

\* A session of two cards, both rated, sent to the result page.
C8_Witness ==
    /\ route = "study_result"
    /\ study_queue = <<>>
    /\ Len(study_done) = 2
    /\ Len(session_due) = 2
    /\ study_total = <<2>>

\* C9: every StudyRecord reached from the fresh one by evaluations has
\* 1.3 <= ease_factor <= 4.0 (130 and 400 hundredths).
C9_EaseWithinLimits ==
    \A w \in DOMAIN records :
        /\ records[w].ease_factor >= 130
        /\ records[w].ease_factor <= 400

\* A record brought down to the lower limit by Hard ratings.
C9_Witness ==
    /\ 1 \in DOMAIN records
    /\ records[1].ease_factor = 130
    /\ records[1].repetitions = 0
    /\ records[1].interval_days = 1
    /\ records[1].last_reviewed_at # <<>>
    /\ route = "saved"

\* C10 (state part): interval_days and repetitions are never negative.
C10_NonNegative ==
    \A w \in DOMAIN records :
        /\ records[w].interval_days >= 0
        /\ records[w].repetitions >= 0

\* C10 (step part): the record a Hard, Good or Easy evaluation saves has an
\* interval of at least one day.
C10_AtLeastOneDay ==
    \A r \in NonAgain, now \in UtcDates(today) :
        evaluate(1, r, "none", now) => records'[1].interval_days >= 1

\* C10: interval_days >= 0 and repetitions >= 0 in every record reached from
\* the fresh one, and interval_days >= 1 right after a Hard, Good or Easy
\* evaluation, the rounded products of the third and later repetitions
\* included.
C10_IntervalAndRepsBounds == []C10_NonNegative /\ [][C10_AtLeastOneDay]_vars

\* A third repetition in a row: its interval is the rounded product.
C10_Witness ==
    /\ 1 \in DOMAIN records
    /\ records[1].repetitions = 3
    /\ records[1].interval_days = 15
    /\ records[1].ease_factor = 250
    /\ route = "saved"

\* Rounding half away from zero of the non-negative rational num/den.
RoundHalfUp(num, den) == (2 * num + den) \div (2 * den)

\* C11: every computed interval is rounded half away from zero: Hard saves
\* max(1, round(interval * 0.8)), Good at repetitions >= 2 saves
\* round(interval * ease), Easy at repetitions >= 2 saves
\* round(interval * ease * 1.3), an exact half going up (24.5 to 25).
C11_RoundsHalfAwayFromZero ==
    [][\A now \in UtcDates(today) :
          LET intv == records[1].interval_days
              ef == records[1].ease_factor
              reps == records[1].repetitions
          IN  /\ evaluate(1, Hard, "none", now) =>
                     records'[1].interval_days = Max(1, RoundHalfUp(intv * 8, 10))
              /\ (reps >= 2 /\ evaluate(1, Good, "none", now)) =>
                     records'[1].interval_days = RoundHalfUp(intv * ef, 100)
              /\ (reps >= 2 /\ evaluate(1, Easy, "none", now)) =>
                     records'[1].interval_days = RoundHalfUp(intv * ef * 13, 1000)]_vars

\* C12: from a fresh card (repetitions 0, ease 2.5) evaluated on day today,
\* Good saves interval 1 and due date today + 1, Easy saves interval 4, due
\* date today + 4 and ease 2.6; at repetitions 1 Good saves interval 6 and
\* Easy interval 10.
C12_FreshCardExamples ==
    [][\A now \in UtcDates(today) :
          LET reps == records[1].repetitions
              ef == records[1].ease_factor
          IN  /\ (reps = 0 /\ ef = 250 /\ evaluate(1, Good, "none", now)) =>
                     /\ records'[1].interval_days = 1
                     /\ records'[1].due_date = today + 1
              /\ (reps = 0 /\ ef = 250 /\ evaluate(1, Easy, "none", now)) =>
                     /\ records'[1].interval_days = 4
                     /\ records'[1].due_date = today + 4
                     /\ records'[1].ease_factor = 260
              /\ (reps = 1 /\ evaluate(1, Good, "none", now)) =>
                     records'[1].interval_days = 6
              /\ (reps = 1 /\ evaluate(1, Easy, "none", now)) =>
                     records'[1].interval_days = 10]_vars

\* The card after Easy on the fresh record and a second Easy the day after.
C12_Witness ==
    /\ today = 1
    /\ records[1].repetitions = 2
    /\ records[1].interval_days = 10
    /\ records[1].ease_factor = 270
    /\ records[1].due_date = 11
    /\ route = "saved"

\* C13: a record with repetitions > 0 has due_date equal to the date of
\* last_reviewed_at plus interval_days; a record never evaluated is due on
\* the day it was created (day 0 for the card of SchedInit).
C13_DueDateFromLastReview ==
    \A w \in DOMAIN records :
        /\ records[w].repetitions > 0 =>
               /\ records[w].last_reviewed_at # <<>>
               /\ records[w].due_date =
                      records[w].last_reviewed_at[1] + records[w].interval_days
        /\ records[w].last_reviewed_at = <<>> => records[w].due_date = 0

\* The part of a record the Scheduler computes.
Core(record) == <<record.ease_factor, record.interval_days, record.repetitions>>

\* The record after rating first and then second on the fresh card.
OneAfterTheOther(first, second) ==
    Schedule(Schedule(FreshRecord(0), first, 0, 0), second, 0, 0)

\* C14: when two threads have each evaluated the fresh card once with a
\* rating other than Again, the record is what the two updates give applied
\* one after the other in some order (two Good: repetitions 2).
C14_NoLostUpdate ==
    (\A p \in Workers : inflight[p] # <<>> /\ inflight[p][1].pc = "done"
                                          /\ inflight[p][1].rating \in NonAgain) =>
        \/ Core(records[1]) = Core(OneAfterTheOther(inflight["a"][1].rating, inflight["b"][1].rating))
        \/ Core(records[1]) = Core(OneAfterTheOther(inflight["b"][1].rating, inflight["a"][1].rating))

\* C15: the due query returns exactly the existing cards whose record is
\* due on or before today: each of them once, none due later, none deleted.
C15_DueCardsExactly ==
    /\ get_due_words(today) # {}
    /\ \A cards \in get_due_words(today) :
          /\ \A i, j \in 1 .. Len(cards) : cards[i] = cards[j] => i = j
          /\ \A w \in Ids :
                (\E i \in 1 .. Len(cards) : cards[i] = w) <=>
                    /\ w \in words
                    /\ w \in DOMAIN records
                    /\ records[w].due_date <= today

\* A session started when one card was due and the other, already reviewed,
\* was not.
C15_Witness ==
    /\ words = {1, 2}
    /\ records[1].due_date > today
    /\ records[2].due_date <= today
    /\ session_due = <<2>>
    /\ study_queue = <<2>>
    /\ head_rated
    /\ route = "study_card"

\* C16: get_next_due_date(today) is the least due_date greater than today
\* over all records, and it is none exactly when every record is due on or
\* before today (no record at all included); it is never a date <= today.
C16_EarliestFutureDue ==
    LET next_due == get_next_due_date(today)
    IN  /\ next_due = <<>> <=> \A w \in DOMAIN records : records[w].due_date <= today
        /\ next_due # <<>> =>
              /\ next_due[1] > today
              /\ \E w \in DOMAIN records : records[w].due_date = next_due[1]
              /\ \A w \in DOMAIN records :
                    records[w].due_date > today => next_due[1] <= records[w].due_date

\* The result page after a session that left the two cards due on two
\* different days.
C16_Witness ==
    /\ route = "result_page"
    /\ DOMAIN records = {1, 2}
    /\ records[1].due_date > today
    /\ records[2].due_date > records[1].due_date
    /\ get_next_due_date(today) = <<records[1].due_date>>

\* C17: study_start sets total to the number of due cards it selected, and
\* no study_card (a drop included), study_answer or study_evaluate (any
\* rating, any id, record missing or not) changes total.
C17_TotalFixed ==
    [][/\ \A cards \in get_due_words(today) :
            (cards # <<>> /\ study_start(cards, FALSE)) => study_total' = <<Len(cards)>>
       /\ \/ study_total' = study_total
          \/ /\ \A failed \in BOOLEAN : ~study_card(failed)
             /\ \A failed \in BOOLEAN : ~study_answer(failed)
             /\ \A w \in Ids, r \in Ratings, f \in Faults : ~study_evaluate(w, r, f, today)]_vars

\* A session of two cards: the first was deleted and dropped, the second
\* rated; total is still 2.
C17_Witness ==
    /\ Len(session_due) = 2
    /\ session_due[1] \notin words
    /\ study_queue = <<>>
    /\ study_done = <<session_due[2]>>
    /\ study_total = <<2>>
    /\ route = "study_result"

\* C18: finishing or abandoning a session changes no word and no record:
\* study_result, whatever the queue holds, only removes the four session
\* keys, and a new study_start over a running session changes no row either.
C18_DiscardKeepsSchedule ==
    [][/\ \A failed \in BOOLEAN : study_result(failed) => UNCHANGED <<words, records>>
       /\ study_result(FALSE) =>
              /\ study_queue' = <<>>
              /\ study_done' = <<>>
              /\ study_ratings' = EmptyMap
              /\ study_total' = <<>>
       /\ \A cards \in get_due_words(today), failed \in BOOLEAN :
              study_start(cards, failed) => UNCHANGED <<words, records>>]_vars

\* The result page after a session; the records reviewed in it are kept.
C18_Witness ==
    /\ route = "result_page"
    /\ study_queue = <<>> /\ study_done = <<>>
    /\ study_ratings = EmptyMap /\ study_total = <<>>
    /\ reviews = 2
    /\ DOMAIN records = {1, 2}
    /\ \A w \in {1, 2} : records[w].last_reviewed_at # <<>>

\* C19 (state part): the words and the study records are the same ids.
C19_OneRecordPerWord == DOMAIN records = words

\* C19 (step part): add_word adds the word together with the record of a
\* new card (ease 2.5, interval 0, repetitions 0, due on the creation day),
\* or on failure neither; a record goes only together with its word.
C19_CreatedAndRemovedTogether ==
    /\ \A id \in Ids :
          /\ add_word(id, FALSE) =>
                /\ words' = words \cup {id}
                /\ DOMAIN records' = DOMAIN records \cup {id}
                /\ records'[id] = [ease_factor |-> 250, interval_days |-> 0,
                                   repetitions |-> 0, due_date |-> today,
                                   last_reviewed_at |-> <<>>]
          /\ add_word(id, TRUE) => UNCHANGED <<words, records>>
    /\ \A w \in DOMAIN records : w \notin DOMAIN records' => w \notin words'

C20_UpdateTable ==
    [][\A now \in UtcDates(today) :
          LET intv == records[1].interval_days
              ef == records[1].ease_factor
              reps == records[1].repetitions
          IN  /\ evaluate(1, Hard, "none", now) =>
                     /\ records'[1].repetitions = (IF reps = 0 THEN 0 ELSE reps - 1)
                     /\ records'[1].ease_factor = (IF ef - 15 < 130 THEN 130 ELSE ef - 15)
              /\ evaluate(1, Good, "none", now) =>
                     /\ records'[1].repetitions = reps + 1
                     /\ records'[1].ease_factor = ef
                     /\ reps = 0 => records'[1].interval_days = 1
                     /\ reps = 1 => records'[1].interval_days = 6
              /\ evaluate(1, Easy, "none", now) =>
                     /\ records'[1].repetitions = reps + 1
                     /\ records'[1].ease_factor = (IF ef + 10 > 400 THEN 400 ELSE ef + 10)
                     /\ reps = 0 => records'[1].interval_days = 4
                     /\ reps = 1 => records'[1].interval_days = 10]_vars

\* Hard on the fresh card: repetitions stay 0.
C20_Witness ==
    /\ records[1].repetitions = 0
    /\ records[1].ease_factor = 235
    /\ records[1].interval_days = 1
    /\ records[1].last_reviewed_at # <<>>
    /\ route = "saved"

\* C21: StudyService.evaluate called with rating Again sets repetitions and
\* interval_days to 0, leaves ease_factor as it was and does not set
\* last_reviewed_at.
C21_AgainKeepsLastReviewed ==
    [][\A now \in UtcDates(today) :
          evaluate(1, Again, "none", now) =>
              /\ records'[1].repetitions = 0
              /\ records'[1].interval_days = 0
              /\ records'[1].ease_factor = records[1].ease_factor
              /\ records'[1].last_reviewed_at = records[1].last_reviewed_at]_vars

\* A step of a session driven on the head of the queue: study_card, or
\* study_evaluate for the word at the head, with any rating and any outcome.
HeadDrivenStep ==
    \/ \E failed \in BOOLEAN : study_card(failed)
    \/ \E w \in Ids, r \in Ratings, f \in Faults :
          IsHead(w) /\ study_evaluate(w, r, f, today)

\* The queue and done together hold no more cards than total.
WithinTotal ==
    /\ study_total # <<>>
    /\ Len(study_queue) + Len(study_done) <= study_total[1]

\* C22 as claimed: rating the head Again grows the queue.
C22_AgainGrowsQueue ==
    [][\A w \in Ids :
          (IsHead(w) /\ study_evaluate(w, Again, "none", today)) =>
              Len(study_queue') > Len(study_queue)]_vars

\* C22 amended: Again on the head does not grow the queue; in a session
\* driven by study_start, study_card and study_evaluate on the head,
\* len(queue) <= total - len(done) in every state.
C22_PendingWithinTotal ==
    [][/\ \A cards \in get_due_words(today) :
            (cards # <<>> /\ study_start(cards, FALSE)) => WithinTotal'
       /\ \A w \in Ids :
            (IsHead(w) /\ study_evaluate(w, Again, "none", today)) =>
                Len(study_queue') = Len(study_queue)
       /\ WithinTotal' \/ ~WithinTotal \/ ~HeadDrivenStep]_vars

\* Two cards, each rated Again once: the queue is back in its first order.
C22_Witness ==
    /\ Len(session_due) = 2
    /\ study_queue = session_due
    /\ study_done = <<>>
    /\ study_total = <<2>>
    /\ ~head_rated
    /\ route = "study_card"
    /\ Range(session_due) \subseteq words

\* C23 (state part): every value of ratings is 1, 2 or 3 and the keys of
\* ratings are the ids of done.
C23_RatingsMatchDone ==
    /\ \A k \in DOMAIN study_ratings : study_ratings[k] \in {1, 2, 3}
    /\ DOMAIN study_ratings = {str(w) : w \in Range(study_done)}

\* C23 (step part): a rating Again enters nothing in done or ratings, so a
\* card rated only Again so far is in neither.
C23_AgainRecordsNothing ==
    \/ (study_done' = study_done /\ study_ratings' = study_ratings)
    \/ \A w \in Ids : ~study_evaluate(w, Again, "none", today)

\* C23: ratings holds only ratings other than Again and agrees with done.
C23_RatingsOnlyNonAgain ==
    []C23_RatingsMatchDone /\ [][C23_AgainRecordsNothing]_vars

\* One card rated Again and waiting, the other rated Hard.
C23_Witness ==
    /\ Len(session_due) = 2
    /\ study_queue = <<session_due[1]>>
    /\ study_done = <<session_due[2]>>
    /\ study_ratings = (str(session_due[2]) :> Hard)
    /\ ~head_rated
    /\ route = "study_card"

NoDuplicate(seq) == \A i, j \in 1 .. Len(seq) : seq[i] = seq[j] => i = j

\* The queue and done hold each id at most once and share none.
Partitioned ==
    /\ NoDuplicate(study_queue)
    /\ NoDuplicate(study_done)
    /\ Range(study_queue) \cap Range(study_done) = {}

\* C24: study_start leaves the selected ids in the queue, each once, and done
\* empty; every step of a session driven on the head keeps the queue and
\* done free of duplicates and disjoint, and keeps every id in the queue or
\* in done except the id of a deleted head, which study_card drops.  So when
\* the queue is empty every selected card not dropped is in done once.
C24_SelectedIdsPartitioned ==
    [][/\ \A cards \in get_due_words(today) :
            (cards # <<>> /\ study_start(cards, FALSE)) =>
                /\ Partitioned'
                /\ Range(study_queue') = Range(cards)
                /\ Len(study_queue') = Len(cards)
                /\ study_done' = <<>>
       /\ \/ ~Partitioned
          \/ /\ Partitioned'
             /\ \/ Range(study_queue') \cup Range(study_done') =
                      Range(study_queue) \cup Range(study_done)
                \/ /\ study_queue # <<>>
                   /\ Head(study_queue) \notin words
                   /\ study_done' = study_done
                   /\ Range(study_queue') = Range(study_queue) \ {Head(study_queue)}
          \/ ~HeadDrivenStep]_vars

\* Two cards selected: the second rated Good, the first sent back with Again
\* and now shown.
C24_Witness ==
    /\ Len(session_due) = 2
    /\ study_queue = <<session_due[1]>>
    /\ study_done = <<session_due[2]>>
    /\ study_ratings = (str(session_due[2]) :> Good)
    /\ session_due[1] \in words
    /\ ~head_rated
    /\ route = "session_page"

\* C25 (step part): a drop of study_card and a Hard, Good or Easy evaluation
\* of the head that did not fail shorten the queue; Again on the head does
\* not lengthen it.
C25_QueueShrinks ==
    /\ (study_card(FALSE) /\ study_queue # <<>> /\ Head(study_queue) \notin words) =>
           Len(study_queue') < Len(study_queue)
    /\ \A w \in Ids, r \in NonAgain, f \in Faults :
           (IsHead(w) /\ study_evaluate(w, r, f, today) /\ route' # "error") =>
               Len(study_queue') < Len(study_queue)
    /\ \A w \in Ids :
           (IsHead(w) /\ study_evaluate(w, Again, "none", today)) =>
               Len(study_queue') <= Len(study_queue)

\* C25: a started session completes, the learner not answering Again for
\* ever (LiveSpec): the queue becomes empty.
C25_SessionCompletes ==
    ((study_total # <<>>) ~> (study_queue = <<>>)) /\ [][C25_QueueShrinks]_vars

\* A session of two cards completed after one Again and a dropped card.
C25_Witness ==
    /\ Len(session_due) = 2
    /\ study_total = <<2>>
    /\ study_queue = <<>>
    /\ study_done = <<session_due[1]>>
    /\ session_due[2] \notin words
    /\ ~head_rated
    /\ route = "study_result"

\* C26 (state part, over one day): a record reviewed today is due after
\* today and the due query does not return its card.
C26_ReviewedNotDue ==
    \A w \in DOMAIN records :
        records[w].last_reviewed_at # <<>> =>
            /\ records[w].due_date > today
            /\ \A cards \in get_due_words(today) : w \notin Range(cards)

\* C26 (step part): a saved Hard, Good or Easy evaluation (the only step
\* that commits a review, so no other step is looked at) leaves the card
\* due after today and out of the due query; study_evaluate with Again and
\* study_result change no record, so a card that was due is still returned.
C26_RatedLeavesDueList ==
    /\ \/ reviews' = reviews
       \/ \A w \in Ids, r \in NonAgain :
             (EvaluateOutcome(w, "none") = "saved" /\ study_evaluate(w, r, "none", today)) =>
                 /\ records'[w].due_date > today
                 /\ w \notin DueIds(today)'
    /\ \/ (records' = records /\ DueIds(today)' = DueIds(today))
       \/ /\ \A w \in Ids : ~study_evaluate(w, Again, "none", today)
          /\ \A failed \in BOOLEAN : ~study_result(failed)

\* C26: after a Hard, Good or Easy evaluation on day today the card is due
\* after today and a session started later that day does not contain it; a
\* card only rated Again, or left in an abandoned session, keeps its record
\* and is still due.
C26_DueAfterToday == []C26_ReviewedNotDue /\ [][C26_RatedLeavesDueList]_vars

\* Card 1 was rated Good, card 2 only Again; the session started afterwards
\* holds card 2 alone.
C26_Witness ==
    /\ words = {1, 2}
    /\ records[1].last_reviewed_at # <<>>
    /\ records[1].interval_days = 1
    /\ records[2] = FreshRecord(today)
    /\ session_due = <<2>>
    /\ study_queue = <<2>>
    /\ head_rated
    /\ route = "study_card"
    /\ reviews = 1

\* C27: whenever a card is shown, its position len(done) + 1 is between 1
\* and total.
C27_PositionWithinTotal ==
    route = "session_page" =>
        /\ study_queue # <<>>
        /\ 1 <= current_num
        /\ current_num <= total_count

\* C27 for a session driven on the head: a card shown by study_card in a
\* state holding no more cards than total has its position within total.
C27_HeadDrivenPosition ==
    [][(WithinTotal /\ study_card(FALSE) /\ route' = "session_page") =>
           (1 <= current_num' /\ current_num' <= total_count')]_vars

====
